---- MODULE Spec2Model ----
(***************************************************************************)
(* Model of strava_hunter.py: the command line entry point (main /         *)
(* run_analysis) and the StravaHunter pipeline (tiles -> segment ids ->    *)
(* batched details -> leaderboard-page scrape -> criteria filter).         *)
(*                                                                         *)
(* The program is one asyncio coroutine, so every action below is the code *)
(* that runs from one suspension point (an await) to the next.             *)
(***************************************************************************)
EXTENDS Integers, Sequences, FiniteSets, TLC

\* ------------------------------------------------------------------ bounds
\* Length of the longest identifier list one tile returns in the model.
BulkLen == 123
\* Largest --radius, in km, of the runs that only compute the tiles.
MaxRadiusKm == 35

\* ------------------------------------------------------- program constants
\* Optional[int] = None (an absent ceiling, an absent scraped value).
None == -1
\* batch_size of the detail requests.
batch_size == 50
\* Default zoom of the tile grid.
zoom == 13
\* HTTP status of a successful response.
HTTP_OK == 200

\* ----------------------------------------------------------------- helpers
Min(a, b) == IF a <= b THEN a ELSE b
Max(a, b) == IF a >= b THEN a ELSE b
Range(a, b) == [i \in 1..(b - a + 1) |-> a + i - 1]

\* Python truthiness of an Optional[int]: None and 0 are falsy.
Truthy(v) == v # None /\ v # 0

\* ------------------------------------------------------------ tile mapping
\* lat -> int((1 - asinh(tan(lat_rad))/pi)/2 * 2^13), tabulated for the
\* latitudes the model uses (the float expression of latlon_to_tile).
MercatorY(lat) ==
    CASE lat = 0   -> 4096
      [] lat = 45  -> 2946
      [] lat = -45 -> 5245
      [] lat = 60  -> 2378
      [] lat = 44  -> 2978

\* int() truncates towards zero; for the longitudes >= -180 that is \div.
latlon_to_tile(lat, lon) ==
    << ((lon + 180) * (2 ^ zoom)) \div 360, MercatorY(lat) >>

get_surrounding_tiles_exclusive(lat, lon, radius_km) ==
    LET tile_radius == Max(1, radius_km \div 10)
        center == latlon_to_tile(lat, lon)
        side == 2 * tile_radius
    IN  IF radius_km <= 10
        THEN << center >>
        ELSE [ k \in 1..(side * side) |->
                 << center[1] - tile_radius + ((k - 1) \div side),
                    center[2] - tile_radius + ((k - 1) % side) >> ]

get_surrounding_tiles(lat, lon, radius_km) ==
    LET tile_radius == Max(1, radius_km \div 10)
        center == latlon_to_tile(lat, lon)
        side == 2 * tile_radius + 1
    IN  IF radius_km <= 10
        THEN << center >>
        ELSE [ k \in 1..(side * side) |->
                 << center[1] - tile_radius + ((k - 1) \div side),
                    center[2] - tile_radius + ((k - 1) % side) >> ]

\* --------------------------------------------------------- location parsing
\* A --location string is modelled as its comma-separated fields; a field is
\* [num |-> float() accepts it, val |-> its value].
Num(v) == [num |-> TRUE, val |-> v]
Junk == [num |-> FALSE, val |-> 0]

\* lat_str, lon_str = location.split(','); float(...); float(...):
\* ValueError unless there are exactly two fields and both are numbers.
ParseLocation(loc) ==
    IF Len(loc) = 2 /\ loc[1].num /\ loc[2].num
    THEN [ok |-> TRUE, lat |-> loc[1].val, lon |-> loc[2].val]
    ELSE [ok |-> FALSE, lat |-> 0, lon |-> 0]

\* ------------------------------------------------------------ tile decoding
\* A feature of a decoded vector tile: its properties, None where absent.
Feature(segmentId, id, segment_id) ==
    [segmentId |-> segmentId, id |-> id, segment_id |-> segment_id]

\* The identifier one feature contributes: segmentId, else id, else
\* segment_id; None when it has none of the three.
FeatureId(f) ==
    IF f.segmentId # None THEN f.segmentId
    ELSE IF f.id # None THEN f.id
    ELSE f.segment_id

ExtractMvtIds(features) ==
    LET HasId(f) == FeatureId(f) # None
        with == SelectSeq(features, HasId)
    IN  [ i \in 1..Len(with) |-> FeatureId(with[i]) ]

\* The response to a tile GET.  conn = FALSE: the request raised (connection
\* failure).  kind: "json" (a JSON document with a segments array), "mvt" (a
\* vector tile), "garbage" (neither decodes), "unreadable" (reading the body
\* raises).
TileResp(conn, status, kind, ids, features) ==
    [conn |-> conn, status |-> status, kind |-> kind, ids |-> ids,
     features |-> features]

\* get_segments_from_tile from the response on: what it returns, whether it
\* raised, and what it printed.
get_segments_from_tile(resp) ==
    IF ~resp.conn
    THEN [raised |-> TRUE, ids |-> << >>, msg |-> "none"]
    ELSE IF resp.status = HTTP_OK
    THEN IF resp.kind = "json"
         THEN [raised |-> FALSE, ids |-> resp.ids, msg |-> "none"]
         ELSE IF resp.kind = "unreadable"
         THEN [raised |-> TRUE, ids |-> << >>, msg |-> "none"]
         ELSE IF resp.kind = "mvt"
         THEN [raised |-> FALSE, ids |-> ExtractMvtIds(resp.features),
               msg |-> "none"]
         ELSE [raised |-> FALSE, ids |-> << >>, msg |-> "mvt_error"]
    ELSE [raised |-> FALSE, ids |-> << >>, msg |-> "tile_status"]

\* Remove duplicates while preserving order: list(dict.fromkeys(ids)) keeps
\* a key at the position of its first insertion.
DedupeKeepLast(ids) ==
    LET at == [ i \in 1..Len(ids) |-> << i, ids[i] >> ]
        IsLast(p) == \A j \in (p[1] + 1)..Len(ids) : ids[j] # p[2]
        kept == SelectSeq(at, IsLast)
    IN  [ k \in 1..Len(kept) |-> kept[k][2] ]

Dedupe(ids) ==
    LET at == [ i \in 1..Len(ids) |-> << i, ids[i] >> ]
        IsFirst(p) == \A j \in 1..(p[1] - 1) : ids[j] # p[2]
        kept == SelectSeq(at, IsFirst)
    IN  [ k \in 1..Len(kept) |-> kept[k][2] ]

\* ----------------------------------------------------------- detail batches
\* all_segment_ids[i:i + batch_size] for the 0-based offset i.
BatchOverlapping(ids, i) == SubSeq(ids, i + 1, Min(i + batch_size + 1, Len(ids)))

Batch(ids, i) == SubSeq(ids, i + 1, Min(i + batch_size, Len(ids)))

\* A detail record as the filter loop sees it.  shape: "ok", "noleader" (no
\* leaderboard entries) or "malformed" (building SegmentData raises).
Detail(id, shape, distance, total_attempts) ==
    [id |-> id, shape |-> shape, distance |-> distance,
     total_attempts |-> total_attempts]

\* The response to a detail POST.  kind: "segments" (data.segments holds the
\* records), "errors" (an errors field), "nodata" (no data.segments),
\* "null_segments" (data.segments is null), "notjson" (json() raises).
DetailResp(conn, status, kind, segments) ==
    [conn |-> conn, status |-> status, kind |-> kind, segments |-> segments]

\* get_segment_details from the response on.  isnone: it returned None.
get_segment_details(resp) ==
    IF ~resp.conn
    THEN [raised |-> TRUE, isnone |-> FALSE, details |-> << >>, msg |-> "none"]
    ELSE IF resp.status = HTTP_OK
    THEN IF resp.kind = "notjson"
         THEN [raised |-> TRUE, isnone |-> FALSE, details |-> << >>, msg |-> "none"]
         ELSE IF resp.kind = "errors"
         THEN [raised |-> FALSE, isnone |-> FALSE, details |-> << >>,
               msg |-> "graphql_errors"]
         ELSE IF resp.kind = "null_segments"
         THEN [raised |-> FALSE, isnone |-> TRUE, details |-> << >>, msg |-> "none"]
         ELSE IF resp.kind = "segments"
         THEN [raised |-> FALSE, isnone |-> FALSE, details |-> resp.segments,
               msg |-> "none"]
         ELSE [raised |-> FALSE, isnone |-> FALSE, details |-> << >>, msg |-> "none"]
    ELSE [raised |-> FALSE, isnone |-> FALSE, details |-> << >>,
          msg |-> "details_status"]

\* --------------------------------------------------------- leaderboard page
\* A cell of the leader's row: bpm / w: the text holds "bpm" / "W";
\* power_mark: the cell has a power class or a nested power element;
\* num: the first number of the text (None: no digits);
\* icon: a span titled "Power Meter" is in the cell.
Cell(bpm, w, power_mark, num, icon) ==
    [bpm |-> bpm, w |-> w, power_mark |-> power_mark, num |-> num, icon |-> icon]

\* A leaderboard page.  table: "none" (no table-leaderboard table),
\* "notbody" (a table without a tbody), "norow" (a tbody without a tr),
\* "row" (a first row with cells).  raw_*: what the fallback patterns find in
\* the page text.
Page(table, cells, raw_hr, raw_power, raw_meter) ==
    [table |-> table, cells |-> cells, raw_hr |-> raw_hr,
     raw_power |-> raw_power, raw_meter |-> raw_meter]

PageResp(conn, status, page) == [conn |-> conn, status |-> status, page |-> page]

Stats(raised, hr, power, verified, tier, msg) ==
    [raised |-> raised, hr |-> hr, power |-> power, verified |-> verified,
     tier |-> tier, msg |-> msg]

\* The loop over the cells of the first row.
RECURSIVE ScanCells(_, _)
ScanCells(cells, acc) ==
    IF cells = << >> THEN acc
    ELSE LET c == Head(cells)
             hr == IF c.bpm /\ c.num # None THEN c.num ELSE acc.hr
             isPower == c.w /\ c.power_mark /\ c.num # None
             power == IF isPower THEN c.num ELSE acc.power
             verified == IF isPower /\ c.icon THEN TRUE ELSE acc.verified
         IN  ScanCells(Tail(cells), [hr |-> hr, power |-> power, verified |-> verified])

\* The regex fallback over the page text.
RegexFallback(page) ==
    Stats(FALSE, page.raw_hr, page.raw_power,
          page.raw_power # None /\ page.raw_meter, 2, "none")

\* get_leader_stats from the response on.  tier: 1 the table, 2 the regex
\* fallback, 0 neither.
get_leader_stats_fallback_on_empty(resp) ==
    IF ~resp.conn
    THEN Stats(TRUE, None, None, FALSE, 0, "none")
    ELSE IF resp.status = HTTP_OK
    THEN IF resp.page.table = "none"
         THEN RegexFallback(resp.page)
         ELSE IF resp.page.table = "notbody"
         THEN Stats(TRUE, None, None, FALSE, 0, "none")
         ELSE IF resp.page.table = "row"
         THEN LET r == ScanCells(resp.page.cells,
                                 [hr |-> None, power |-> None, verified |-> FALSE])
              IN  IF r.hr = None /\ r.power = None
                  THEN RegexFallback(resp.page)
                  ELSE Stats(FALSE, r.hr, r.power, r.verified, 1, "none")
         ELSE RegexFallback(resp.page)
    ELSE Stats(FALSE, None, None, FALSE, 0, "page_status")

get_leader_stats(resp) ==
    IF ~resp.conn
    THEN Stats(TRUE, None, None, FALSE, 0, "none")
    ELSE IF resp.status = HTTP_OK
    THEN IF resp.page.table = "none"
         THEN RegexFallback(resp.page)
         ELSE IF resp.page.table = "notbody"
         THEN Stats(TRUE, None, None, FALSE, 0, "none")
         ELSE IF resp.page.table = "row"
         THEN LET r == ScanCells(resp.page.cells,
                                 [hr |-> None, power |-> None, verified |-> FALSE])
              IN  Stats(FALSE, r.hr, r.power, r.verified, 1, "none")
         ELSE RegexFallback(resp.page)
    ELSE Stats(FALSE, None, None, FALSE, 0, "page_status")

\* ------------------------------------------------------------------- filter
Criteria(min_d, max_d, max_hr, max_pw, min_a, max_a) ==
    [min_distance |-> min_d, max_distance |-> max_d,
     max_heart_rate |-> max_hr, max_power |-> max_pw,
     min_attempts |-> min_a, max_attempts |-> max_a]

\* The basic criteria of line 362.
PassesBasic(criteria, d) ==
    /\ criteria.min_distance <= d.distance
    /\ d.distance <= criteria.max_distance
    /\ criteria.min_attempts <= d.total_attempts
    /\ d.total_attempts <= criteria.max_attempts

\* A record for which the loop body reaches get_leader_stats.
FetchesAnyLeader(criteria, d) == d.shape = "ok"

ReachesScrape(criteria, d) == d.shape = "ok" /\ PassesBasic(criteria, d)

\* criteria.max_x and (not x or x > criteria.max_x)
CeilingDrops(ceiling, v) == Truthy(ceiling) /\ (~Truthy(v) \/ v > ceiling)

SegmentData(d, stats) ==
    [id |-> d.id, distance |-> d.distance, total_attempts |-> d.total_attempts,
     leader_hr |-> stats.hr, leader_power |-> stats.power,
     leader_power_verified |-> stats.verified]

\* The index of the first record at or after k that reaches the scrape, or
\* Len(details) + 1 when the loop runs to its end without one.
NextScrape(criteria, details, k) ==
    LET hits == { j \in k..Len(details) : ReachesScrape(criteria, details[j]) }
    IN  IF hits = {} THEN Len(details) + 1
        ELSE CHOOSE j \in hits : \A h \in hits : j <= h

\* ------------------------------------------------------------------- inputs
\* The command lines of the model: --location, --radius and the criteria.
Locations ==
    { << Num(45), Num(-93) >>,            \* "45,-93"
      << Num(45) >>,                      \* "45"
      << Num(45), Num(-93), Num(7) >>,    \* "45,-93,7"
      << Junk, Num(-93) >>,               \* "abc,-93"
      << Num(45), Junk >> }               \* "45,"

Radii == { 5, 15 }

CriteriaSet ==
    { Criteria(500, 2000, hr, pw, 1, 50) :
        hr \in { None, 0, 150 }, pw \in { None, 200 } }
    \cup { Criteria(500, 2000, None, 0, 1, 50) }

\* What the tile service may answer: short identifier lists with repeats
\* within a tile and across tiles, or long ones around the batch size.
SmallLists == { << >>, << 5, 3, 5, 3, 7 >>, << 7, 9, 5, 8 >> }
BulkLens == { 1, batch_size - 1, batch_size, batch_size + 1, 2 * batch_size,
              2 * batch_size + 1, BulkLen }
BulkLists == { Range(1, n) : n \in BulkLens }
             \cup { << >>, Range(1, BulkLen) \o << 2, 1 >> }

\* A vector tile carrying the identifiers ids under the three property keys
\* in turn, each with a decoy under a key of lower priority, after one
\* feature without any identifier.
MvtOf(ids) ==
    << Feature(None, None, None) >> \o
    [ i \in 1..Len(ids) |->
        CASE i % 3 = 0 -> Feature(ids[i], 9001, 9002)
          [] i % 3 = 1 -> Feature(None, ids[i], 9003)
          [] OTHER     -> Feature(None, None, ids[i]) ]

TileResponses(lists) ==
    { TileResp(FALSE, 0, "none", << >>, << >>),
      TileResp(TRUE, 500, "none", << >>, << >>),
      TileResp(TRUE, HTTP_OK, "garbage", << >>, << >>),
      TileResp(TRUE, HTTP_OK, "unreadable", << >>, << >>) }
    \cup { TileResp(TRUE, HTTP_OK, "json", ids, << >>) : ids \in lists }
    \cup { TileResp(TRUE, HTTP_OK, "mvt", << >>, MvtOf(ids)) : ids \in lists }

\* The detail record the service holds for a segment.
Catalogue(id) ==
    CASE id = 1   -> Detail(id, "ok", 499, 20)
      [] id = 2   -> Detail(id, "ok", 2001, 20)
      [] id = 3   -> Detail(id, "ok", 1800, 100)
      [] id = 4   -> Detail(id, "ok", 1500, 0)
      [] id = 5   -> Detail(id, "ok", 500, 1)
      [] id = 6   -> Detail(id, "ok", 1500, 51)
      [] id = 7   -> Detail(id, "ok", 2000, 50)
      [] id = 8   -> Detail(id, "noleader", 1500, 20)
      [] id = 9   -> Detail(id, "malformed", 1500, 20)
      [] id = 120 -> Detail(id, "ok", 1500, 20)
      [] OTHER    ->
           CASE id % 4 = 0 -> Detail(id, "noleader", 1000, 10)
             [] id % 4 = 1 -> Detail(id, "ok", 2500, 10)
             [] id % 4 = 2 -> Detail(id, "malformed", 1000, 10)
             [] OTHER      -> Detail(id, "ok", 1000, 300)

DetailResponses(batch) ==
    { DetailResp(FALSE, 0, "none", << >>),
      DetailResp(TRUE, 500, "none", << >>),
      DetailResp(TRUE, HTTP_OK, "notjson", << >>),
      DetailResp(TRUE, HTTP_OK, "errors", << >>),
      DetailResp(TRUE, HTTP_OK, "nodata", << >>),
      DetailResp(TRUE, HTTP_OK, "null_segments", << >>),
      DetailResp(TRUE, HTTP_OK, "segments",
                 [ i \in 1..Len(batch) |-> Catalogue(batch[i]) ]) }

NameCell == Cell(FALSE, FALSE, FALSE, None, FALSE)
Pages ==
    { Page("row", << NameCell, Cell(TRUE, FALSE, FALSE, 140, FALSE),
                     Cell(FALSE, TRUE, TRUE, 180, TRUE) >>, None, None, FALSE),
      Page("row", << NameCell, Cell(TRUE, FALSE, FALSE, 160, FALSE),
                     Cell(FALSE, TRUE, TRUE, 250, FALSE) >>, None, None, FALSE),
      Page("row", << Cell(TRUE, FALSE, FALSE, 0, FALSE),
                     Cell(FALSE, TRUE, TRUE, 0, FALSE) >>, None, None, FALSE),
      Page("row", << NameCell, Cell(FALSE, TRUE, FALSE, 300, TRUE) >>, 142, 250, TRUE),
      Page("row", << >>, 142, 250, FALSE),
      Page("norow", << >>, 142, 250, FALSE),
      Page("notbody", << >>, 142, 250, FALSE),
      Page("none", << >>, 142, 250, FALSE),
      Page("none", << >>, 142, 250, TRUE),
      Page("none", << >>, None, None, TRUE) }

PageResponses ==
    { PageResp(FALSE, 0, Page("none", << >>, None, None, FALSE)),
      PageResp(TRUE, 404, Page("none", << >>, None, None, FALSE)) }
    \cup { PageResp(TRUE, HTTP_OK, p) : p \in Pages }

\* -------------------------------------------------------------------- state
VARIABLES
    pc,                 \* the suspension point the coroutine is at
    service,            \* the identifier lists the tile service may answer
    args,               \* the parsed command line: location, radius, criteria
    session,            \* hunter.session: "none", "open", "closed"
    tiles,              \* the tiles handed to analyze_segments
    tile_idx,           \* index of the tile being fetched
    all_segment_ids,
    batch_i,            \* i of the batch loop (0-based offset)
    segment_details,
    seg_idx,            \* index of the record the filter loop is at
    winnable_segments,
    last_stats,         \* what the latest get_leader_stats call gave, and
                        \* the page it was given
    outcome,            \* how run_analysis went: "running", "invalid_location",
                        \* "no_segments", "returned", "exception"
    exit_status,        \* the exit status of the process, None while it runs
    console,            \* what the latest step printed
    delays,             \* completed pacing sleeps since the latest request
    in_flight,          \* requests started and not yet finished
    tile_requests,      \* the tiles requested, in order
    batch_requests,     \* the payloads of the detail requests, in order
    page_requests       \* the indices (into segment_details) scraped, in order

vars == << pc, service, args, session, tiles, tile_idx, all_segment_ids, batch_i,
           segment_details, seg_idx, winnable_segments, last_stats, outcome,
           exit_status, console, delays, in_flight, tile_requests,
           batch_requests, page_requests >>

NoPage == Page("none", << >>, None, None, FALSE)

NoStats == [seg |-> 0, raised |-> FALSE, hr |-> None, power |-> None,
            verified |-> FALSE, tier |-> 0, status |-> 0, page |-> NoPage]

InitAt(locs, lists, radii, crits) ==
    /\ pc = "enter"
    /\ service = lists
    /\ args \in [location : locs, radius : radii, criteria : crits]
    /\ session = "none"
    /\ tiles = << >>
    /\ tile_idx = 0
    /\ all_segment_ids = << >>
    /\ batch_i = 0
    /\ segment_details = << >>
    /\ seg_idx = 0
    /\ winnable_segments = << >>
    /\ last_stats = NoStats
    /\ outcome = "running"
    /\ exit_status = None
    /\ console = "none"
    /\ delays = 0
    /\ in_flight = 0
    /\ tile_requests = << >>
    /\ batch_requests = << >>
    /\ page_requests = << >>

InitWith(lists, radii, crits) == InitAt(Locations, lists, radii, crits)

\* Runs over one tile or a 3 x 3 square of tiles with short identifier lists.
Init == InitWith(SmallLists, Radii, CriteriaSet)

\* Runs over one tile with identifier lists around and above the batch size.
InitBatches == InitWith(BulkLists, { 5 }, CriteriaSet)

\* Runs that parse the location and compute the tiles, for every point of a
\* grid of latitudes and longitudes and every radius up to MaxRadiusKm.
TileLocations ==
    { << Num(lat), Num(lon) >> : lat \in { -45, 0, 44, 45, 60 },
                                 lon \in { -180, -93, 0, 10, 179 } }

InitTiles ==
    InitAt(TileLocations, SmallLists, 0..MaxRadiusKm,
           { Criteria(500, 2000, None, None, 1, 50) })

\* await asyncio.sleep(self.rate_limit_delay)
SleepSkipped(d) == d

Sleep(d) == d + 1

\* async with StravaHunter(args.cookie) as hunter: __aenter__
Enter ==
    /\ pc = "enter"
    /\ session' = "open"
    /\ pc' = "parse"
    /\ UNCHANGED << service, args, tiles, tile_idx, all_segment_ids, batch_i,
                    segment_details, seg_idx, winnable_segments, last_stats,
                    outcome, exit_status, console, delays, in_flight,
                    tile_requests, batch_requests, page_requests >>

\* run_analysis: the try block that parses --location and computes the
\* tiles, then analyze_segments up to the first pacing sleep.
ParseAndStart ==
    /\ pc = "parse"
    /\ LET p == ParseLocation(args.location)
       IN  IF p.ok
           THEN /\ tiles' = get_surrounding_tiles(p.lat, p.lon, args.radius)
                /\ tile_idx' = 1
                /\ console' = "found_tiles"
                /\ outcome' = outcome
                /\ pc' = "tile_sleep"
           ELSE /\ console' = "invalid_location"
                /\ outcome' = "invalid_location"
                /\ pc' = "exit"
                /\ UNCHANGED << tiles, tile_idx >>
    /\ UNCHANGED << service, args, session, all_segment_ids, batch_i, segment_details,
                    seg_idx, winnable_segments, last_stats, exit_status,
                    delays, in_flight, tile_requests, batch_requests,
                    page_requests >>

\* get_segments_from_tile: the pacing sleep.
TileSleep ==
    /\ pc = "tile_sleep"
    /\ delays' = Sleep(delays)
    /\ pc' = "tile_get"
    /\ UNCHANGED << service, args, session, tiles, tile_idx, all_segment_ids, batch_i,
                    segment_details, seg_idx, winnable_segments, last_stats,
                    outcome, exit_status, console, in_flight, tile_requests,
                    batch_requests, page_requests >>

\* get_segments_from_tile: self.session.get(url, params=params) is issued.
TileGet ==
    /\ pc = "tile_get"
    /\ tile_requests' = Append(tile_requests, tiles[tile_idx])
    /\ delays' = 0
    /\ in_flight' = in_flight + 1
    /\ pc' = "tile_wait"
    /\ UNCHANGED << service, args, session, tiles, tile_idx, all_segment_ids, batch_i,
                    segment_details, seg_idx, winnable_segments, last_stats,
                    outcome, exit_status, console, batch_requests,
                    page_requests >>

\* get_segments_from_tile from the response on, all_segment_ids.extend and
\* the next turn of the tile loop.
TileResponse ==
    /\ pc = "tile_wait"
    /\ \E resp \in TileResponses(service) :
         LET r == get_segments_from_tile(resp)
         IN  /\ in_flight' = in_flight - 1
             /\ IF r.raised
                THEN /\ outcome' = "exception"
                     /\ pc' = "exit"
                     /\ UNCHANGED << all_segment_ids, tile_idx, console >>
                ELSE /\ all_segment_ids' = all_segment_ids \o r.ids
                     /\ console' = r.msg
                     /\ outcome' = outcome
                     /\ IF tile_idx < Len(tiles)
                        THEN tile_idx' = tile_idx + 1 /\ pc' = "tile_sleep"
                        ELSE tile_idx' = tile_idx /\ pc' = "dedupe"
    /\ UNCHANGED << service, args, session, tiles, batch_i, segment_details, seg_idx,
                    winnable_segments, last_stats, exit_status, delays,
                    tile_requests, batch_requests, page_requests >>

\* analyze_segments after the tile loop: the deduplication, the empty-set
\* return, and the batch loop up to its first pacing sleep.
DedupeStep ==
    /\ pc = "dedupe"
    /\ all_segment_ids' = Dedupe(all_segment_ids)
    /\ IF all_segment_ids' = << >>
       THEN /\ console' = "no_segments"
            /\ outcome' = "no_segments"
            /\ pc' = "exit"
       ELSE /\ console' = "found_segments"
            /\ outcome' = outcome
            /\ pc' = "batch_sleep"
    /\ batch_i' = 0
    /\ UNCHANGED << service, args, session, tiles, tile_idx, segment_details, seg_idx,
                    winnable_segments, last_stats, exit_status, delays,
                    in_flight, tile_requests, batch_requests, page_requests >>

\* get_segment_details: the pacing sleep.
BatchSleep ==
    /\ pc = "batch_sleep"
    /\ delays' = Sleep(delays)
    /\ pc' = "batch_post"
    /\ UNCHANGED << service, args, session, tiles, tile_idx, all_segment_ids, batch_i,
                    segment_details, seg_idx, winnable_segments, last_stats,
                    outcome, exit_status, console, in_flight, tile_requests,
                    batch_requests, page_requests >>

\* get_segment_details: self.session.post(url, json=payload) is issued.
BatchPost ==
    /\ pc = "batch_post"
    /\ batch_requests' = Append(batch_requests, Batch(all_segment_ids, batch_i))
    /\ delays' = 0
    /\ in_flight' = in_flight + 1
    /\ pc' = "batch_wait"
    /\ UNCHANGED << service, args, session, tiles, tile_idx, all_segment_ids, batch_i,
                    segment_details, seg_idx, winnable_segments, last_stats,
                    outcome, exit_status, console, tile_requests,
                    page_requests >>

\* The filter loop from record k on, up to the next pacing sleep or to the
\* return of analyze_segments and the listing of run_analysis.
FilterFrom(k, details, won) ==
    LET j == NextScrape(args.criteria, details, k)
    IN  /\ seg_idx' = j
        /\ IF j <= Len(details)
           THEN /\ pc' = "page_sleep"
                /\ outcome' = outcome
                /\ console' = "none"
           ELSE /\ pc' = "exit"
                /\ outcome' = "returned"
                /\ console' = IF won = << >> THEN "no_winnable" ELSE "winnable_table"

\* get_segment_details from the response on, segment_details.extend and the
\* next turn of the batch loop; after the last batch, the filter loop.
BatchResponse ==
    /\ pc = "batch_wait"
    /\ \E resp \in DetailResponses(batch_requests[Len(batch_requests)]) :
         LET r == get_segment_details(resp)
         IN  /\ in_flight' = in_flight - 1
             /\ IF r.raised \/ r.isnone
                THEN /\ outcome' = "exception"
                     /\ pc' = "exit"
                     /\ UNCHANGED << segment_details, batch_i, seg_idx, console >>
                ELSE /\ segment_details' = segment_details \o r.details
                     /\ IF batch_i + batch_size < Len(all_segment_ids)
                        THEN /\ batch_i' = batch_i + batch_size
                             /\ pc' = "batch_sleep"
                             /\ console' = r.msg
                             /\ UNCHANGED << seg_idx, outcome >>
                        ELSE /\ batch_i' = batch_i
                             /\ FilterFrom(1, segment_details', winnable_segments)
    /\ UNCHANGED << service, args, session, tiles, tile_idx, all_segment_ids,
                    winnable_segments, last_stats, exit_status, delays,
                    tile_requests, batch_requests, page_requests >>

\* get_leader_stats: the pacing sleep.
PageSleep ==
    /\ pc = "page_sleep"
    /\ delays' = Sleep(delays)
    /\ pc' = "page_get"
    /\ UNCHANGED << service, args, session, tiles, tile_idx, all_segment_ids, batch_i,
                    segment_details, seg_idx, winnable_segments, last_stats,
                    outcome, exit_status, console, in_flight, tile_requests,
                    batch_requests, page_requests >>

\* get_leader_stats: self.session.get(url) is issued.
PageGet ==
    /\ pc = "page_get"
    /\ page_requests' = Append(page_requests, seg_idx)
    /\ delays' = 0
    /\ in_flight' = in_flight + 1
    /\ pc' = "page_wait"
    /\ UNCHANGED << service, args, session, tiles, tile_idx, all_segment_ids, batch_i,
                    segment_details, seg_idx, winnable_segments, last_stats,
                    outcome, exit_status, console, tile_requests,
                    batch_requests >>

\* get_leader_stats from the response on, the ceilings, the append, and the
\* filter loop from the next record on.  An exception of get_leader_stats is
\* caught by the except of the loop body, which skips the record.
PageResponse ==
    /\ pc = "page_wait"
    /\ \E resp \in PageResponses :
         LET st == get_leader_stats(resp)
             d == segment_details[seg_idx]
             kept == /\ ~st.raised
                     /\ ~CeilingDrops(args.criteria.max_heart_rate, st.hr)
                     /\ ~CeilingDrops(args.criteria.max_power, st.power)
             won == IF kept THEN Append(winnable_segments, SegmentData(d, st))
                    ELSE winnable_segments
         IN  /\ in_flight' = in_flight - 1
             /\ winnable_segments' = won
             /\ last_stats' = [seg |-> seg_idx, raised |-> st.raised, hr |-> st.hr,
                               power |-> st.power, verified |-> st.verified,
                               tier |-> st.tier,
                               status |-> IF resp.conn THEN resp.status ELSE 0,
                               page |-> IF resp.conn /\ resp.status = HTTP_OK
                                        THEN resp.page ELSE NoPage]
             /\ FilterFrom(seg_idx + 1, segment_details, won)
    /\ UNCHANGED << service, args, session, tiles, tile_idx, all_segment_ids, batch_i,
                    segment_details, exit_status, delays, tile_requests,
                    batch_requests, page_requests >>

\* __aexit__ closes the session; asyncio.run returns, or re-raises the
\* exception that ended run_analysis, and the process exits.
ExitWithoutClose ==
    /\ pc = "exit"
    /\ session' = IF session = "open" /\ outcome # "exception"
                  THEN "closed" ELSE session
    /\ exit_status' = IF outcome = "exception" THEN 1 ELSE 0
    /\ pc' = "done"
    /\ UNCHANGED << service, args, tiles, tile_idx, all_segment_ids, batch_i,
                    segment_details, seg_idx, winnable_segments, last_stats,
                    outcome, console, delays, in_flight, tile_requests,
                    batch_requests, page_requests >>

Exit ==
    /\ pc = "exit"
    /\ session' = IF session = "open" THEN "closed" ELSE session
    /\ exit_status' = IF outcome = "exception" THEN 1 ELSE 0
    /\ pc' = "done"
    /\ UNCHANGED << service, args, tiles, tile_idx, all_segment_ids, batch_i,
                    segment_details, seg_idx, winnable_segments, last_stats,
                    outcome, console, delays, in_flight, tile_requests,
                    batch_requests, page_requests >>

Next ==
    \/ Enter
    \/ ParseAndStart
    \/ TileSleep
    \/ TileGet
    \/ TileResponse
    \/ DedupeStep
    \/ BatchSleep
    \/ BatchPost
    \/ BatchResponse
    \/ PageSleep
    \/ PageGet
    \/ PageResponse
    \/ Exit

Spec == Init /\ [][Next]_vars

SpecBatches == InitBatches /\ [][Next]_vars

\* run_analysis up to the call of analyze_segments.
NextTiles ==
    \/ Enter
    \/ ParseAndStart

SpecTiles == InitTiles /\ [][NextTiles]_vars
\* ------------------------------------------------------------------- claims
RequestCount == Len(tile_requests) + Len(batch_requests) + Len(page_requests)

\* ceil(n / 50)
BatchesFor(n) == (n + 49) \div 50

\* The batch loop has run to its end.
BatchesDone == pc \in { "page_sleep", "page_get", "page_wait" } \/ outcome = "returned"

\* The distance and attempt bounds of the criteria, all four inclusive.
WithinBounds(d) ==
    /\ args.criteria.min_distance <= d.distance
    /\ d.distance <= args.criteria.max_distance
    /\ args.criteria.min_attempts <= d.total_attempts
    /\ d.total_attempts <= args.criteria.max_attempts

\* A well-formed record with a leader inside the four bounds.
GatePassing(d) == d.shape = "ok" /\ WithinBounds(d)

NoCeilings == args.criteria.max_heart_rate = None /\ args.criteria.max_power = None

\* The record of the latest scrape is the last entry of the result.
LastScrapedKept ==
    /\ winnable_segments # << >>
    /\ winnable_segments[Len(winnable_segments)].id = segment_details[last_stats.seg].id

\* C1: no failure of a single unit (tile, detail batch, leaderboard page),
\* be it a non-200 status, a connection failure or a decode error, aborts the
\* pipeline: a run with a valid location ends by a normal return, after every
\* tile and every batch has been requested.
C1_FailureNeverAborts ==
    (pc = "done" /\ outcome # "invalid_location") =>
        /\ outcome \in { "returned", "no_segments" }
        /\ Len(tile_requests) = Len(tiles)
        /\ outcome = "returned" =>
             Len(batch_requests) = BatchesFor(Len(all_segment_ids))

\* C2: a leaderboard page is requested for a detail record only if the record
\* is well formed, has a leader and lies inside the four bounds; no record is
\* scraped twice; and every such record the filter loop has come to has been
\* scraped exactly once.
C2_LazyEnrichment ==
    LET Scrapes(k) == Cardinality({ i \in 1..Len(page_requests) : page_requests[i] = k })
        Reached(k) == k < seg_idx \/ (k = seg_idx /\ pc = "page_wait")
    IN  /\ \A i \in 1..Len(page_requests) : page_requests[i] \in 1..Len(segment_details)
        /\ \A k \in 1..Len(segment_details) :
             /\ Scrapes(k) <= 1
             /\ Scrapes(k) = 1 => GatePassing(segment_details[k])
             /\ (Reached(k) /\ GatePassing(segment_details[k])) => Scrapes(k) = 1

\* C2 witness: the run has returned after scraping a record, having passed
\* over a record outside the bounds, a leader-less one and a malformed one.
C2_Witness ==
    /\ pc = "done" /\ outcome = "returned"
    /\ page_requests # << >>
    /\ \E k \in 1..Len(segment_details) :
         segment_details[k].shape = "ok" /\ ~WithinBounds(segment_details[k])
    /\ \E k \in 1..Len(segment_details) :
         segment_details[k].shape = "noleader" /\ WithinBounds(segment_details[k])
    /\ \E k \in 1..Len(segment_details) :
         segment_details[k].shape = "malformed" /\ WithinBounds(segment_details[k])

\* C3: every request (tile GET, detail POST, page GET) starts after exactly
\* one completed pacing sleep since the request before it, whatever became of
\* that request, and while no other request is in flight; at most one request
\* is ever in flight.
C3_PacedOneAtATime ==
    /\ [](in_flight \in { 0, 1 })
    /\ [][ RequestCount' # RequestCount =>
             /\ RequestCount' = RequestCount + 1
             /\ delays = 1
             /\ in_flight = 0
             /\ in_flight' = 1 ]_vars

\* C3 witness: a second tile request is in flight after the first tile
\* answered with a non-200 status.
C3_Witness ==
    /\ pc = "tile_wait"
    /\ in_flight = 1
    /\ Len(tile_requests) >= 2
    /\ console = "tile_status"

\* C4: a record with a leader passes the basic gate iff it lies inside the
\* four inclusive bounds; no record outside a bound is in the result; and with
\* no ceiling set the result is exactly the gate-passing records, in input
\* order.
C4_BasicGate ==
    (pc = "done" /\ outcome = "returned") =>
        LET passing == SelectSeq(segment_details, GatePassing)
        IN  /\ \A i \in 1..Len(winnable_segments) : WithinBounds(winnable_segments[i])
            /\ NoCeilings =>
                 /\ Len(winnable_segments) = Len(passing)
                 /\ \A i \in 1..Len(passing) : winnable_segments[i].id = passing[i].id

\* C5: a ceiling that is set, whatever its value, drops a gate-passing
\* candidate exactly when the scraped value is absent or above the ceiling;
\* a ceiling that is not set imposes nothing.
C5_CeilingRule ==
    (last_stats.seg # 0 /\ ~last_stats.raised) =>
        LET Drops(ceiling, v) == ceiling # None /\ (v = None \/ v > ceiling)
        IN  LastScrapedKept <=>
              /\ ~Drops(args.criteria.max_heart_rate, last_stats.hr)
              /\ ~Drops(args.criteria.max_power, last_stats.power)

\* C6: a scrape that errs (a non-200 status, a connection failure, a table
\* without a tbody) yields the all-absent stats, so that with no ceiling set
\* the candidate is still in the result, with absent heart rate and power.
C6_ScrapeNeverFails ==
    (last_stats.seg # 0 /\ (last_stats.raised \/ last_stats.status # HTTP_OK)) =>
        /\ last_stats.hr = None /\ last_stats.power = None /\ ~last_stats.verified
        /\ NoCeilings =>
             /\ LastScrapedKept
             /\ winnable_segments[Len(winnable_segments)].leader_hr = None
             /\ winnable_segments[Len(winnable_segments)].leader_power = None
             /\ ~winnable_segments[Len(winnable_segments)].leader_power_verified

\* C7: every tile's identifiers are appended to those of the tiles before it,
\* and the step that deduplicates turns this concatenation of the tiles'
\* identifier lists into a list without repeats that holds exactly the
\* identifiers of the concatenation, in the order of their first occurrence.
C7_Dedupe ==
    [][ /\ pc = "tile_wait" =>
             SubSeq(all_segment_ids', 1, Len(all_segment_ids)) = all_segment_ids
        /\ pc = "dedupe" =>
             LET raw == all_segment_ids
                 out == all_segment_ids'
                 First(v) == CHOOSE i \in 1..Len(raw) :
                                 raw[i] = v /\ \A j \in 1..(i - 1) : raw[j] # v
             IN  /\ \A i, j \in 1..Len(out) : i # j => out[i] # out[j]
                 /\ { out[i] : i \in 1..Len(out) } = { raw[i] : i \in 1..Len(raw) }
                 /\ \A i, j \in 1..Len(out) :
                      i < j => First(out[i]) < First(out[j]) ]_vars

\* C7 witness: two tiles answered << 5, 3, 5, 3, 7 >> and << 7, 9, 5, 8 >>
\* and the deduplicated list is << 5, 3, 7, 9, 8 >>.
C7_Witness ==
    /\ pc = "batch_sleep"
    /\ Len(tile_requests) >= 2
    /\ all_segment_ids = << 5, 3, 7, 9, 8 >>

C9_EmptyShortCircuit ==
    /\ outcome = "no_segments" =>
         /\ all_segment_ids = << >>
         /\ batch_requests = << >> /\ page_requests = << >>
         /\ winnable_segments = << >>
         /\ pc = "done" => exit_status = 0
    /\ (pc \in { "batch_sleep", "batch_post", "batch_wait" }) => all_segment_ids # << >>
    /\ (pc = "done" /\ outcome \notin { "no_segments", "invalid_location" }) =>
         /\ Len(tile_requests) = Len(tiles)
         /\ Len(batch_requests) = BatchesFor(Len(all_segment_ids))
         /\ seg_idx = Len(segment_details) + 1

\* C10: a --location that is not two comma-separated floats leads to no
\* network request at all, to a user-visible error, and to a non-zero exit
\* status.
C10_InvalidLocation ==
    LET loc == args.location
        valid == Len(loc) = 2 /\ \A i \in 1..Len(loc) : loc[i].num
    IN  ~valid =>
          /\ RequestCount = 0
          /\ pc = "done" => (console = "invalid_location" /\ exit_status # 0)

\* C11: get_surrounding_tiles gives the one base tile (the latlon_to_tile
\* conversion of the point) when radius_km <= 10; for a larger radius, with
\* r = max(1, floor(radius_km / 10)), it gives the (2r+1)^2 pairwise distinct
\* tiles (base.x + dx, base.y + dy), dx and dy in -r..r, dx outer, dy inner.
C11_TileMapping ==
    pc = "tile_sleep" =>
        LET base == latlon_to_tile(args.location[1].val, args.location[2].val)
            tenths == args.radius \div 10
            r == IF tenths >= 1 THEN tenths ELSE 1
        IN  IF args.radius <= 10
            THEN tiles = << base >>
            ELSE /\ Len(tiles) = (2 * r + 1) * (2 * r + 1)
                 /\ \A i, j \in 1..Len(tiles) : i # j => tiles[i] # tiles[j]
                 /\ \A dx, dy \in (-r)..r :
                      tiles[(dx + r) * (2 * r + 1) + (dy + r) + 1]
                          = << base[1] + dx, base[2] + dy >>

\* C11 witness: radius 25 around (45, -93) gives 25 tiles, the 13th of them
\* the base tile (1979, 2946), the first (1977, 2944), the last (1981, 2948).
C11_Witness ==
    /\ pc = "tile_sleep"
    /\ args.radius = 25
    /\ Len(tiles) = 25
    /\ tiles[13] = << 1979, 2946 >>
    /\ tiles[1] = << 1977, 2944 >>
    /\ tiles[25] = << 1981, 2948 >>

C13_ScopedSession ==
    /\ [](session = "none" <=> pc = "enter")
    /\ [](pc = "done" => session = "closed")
    /\ [](in_flight > 0 => session = "open")
    /\ [][ RequestCount' # RequestCount => (session = "open" /\ session' = "open") ]_vars
    /\ [][ session' # session =>
             \/ (session = "none" /\ session' = "open")
             \/ (session = "open" /\ session' = "closed") ]_vars

\* C13 witness: a run that issued requests and ended by an exception has
\* closed its session.
C13_Witness ==
    /\ pc = "done"
    /\ outcome = "exception"
    /\ RequestCount >= 2
    /\ session = "closed"

====
